---- MODULE Spec2Model ----
(***************************************************************************)
(* Model of the PS3/BS3 functional-evidence pipeline (AcmGENTIC).          *)
(*                                                                         *)
(* Python strings are modelled as sequences of character codes (ASCII),    *)
(* so that sorted() is the lexicographic order Python applies to str.      *)
(* None, where a str is expected, is the reserved one-code sequence <<0>>. *)
(***************************************************************************)
EXTENDS Integers, Sequences, FiniteSets, TLC

VARIABLES
    pc,                 \* position of analyze_variant / of the caller of integrate_evidence
    idx,                \* 1-based position of the loop of the current stage
    vi,                 \* the VariantInfo of the run
    all_pmids,          \* query_litvar2: the accumulated PMID set
    candidate_papers,   \* list of CandidatePaper
    functional_papers,  \* list of FunctionalPaper
    experiments,        \* list of FunctionalExperiment
    assessment,         \* <<>> until integrate_evidence returned, then <<IntegratedAssessment>>
    result,             \* <<>> until analyze_variant returned, then <<the returned dict>>
    vep_info,           \* the annotation last obtained (vep_info of analyze_variant)
    identifiers,        \* the list vi.search_strings() returned to its last caller
    printed,            \* the diagnostics printed by the last step (warnings, VEP outcome)
    pmids,              \* query_litvar2: the set the last query_litvar2_publications returned
    parsed              \* llm_filter_functional_papers: the screening response last received

vars == <<pc, idx, vi, all_pmids, candidate_papers, functional_papers,
          experiments, assessment, result, vep_info, identifiers, printed,
          pmids, parsed>>

----------------------------------------------------------------------------
(* Bounds of the model *)

MaxExperiments == 3     \* longest experiment list handed to integrate_evidence
NumPmids == 2           \* number of distinct PMIDs the collaborators can name
MaxRawExperiments == 2  \* longest "experiments" list of one extraction response

(* Program constant: the character-length threshold of high_quality *)
QualityThreshold == 40

----------------------------------------------------------------------------
(* Strings *)

None == <<0>>

Truthy(s) == s # None /\ s # <<>>

RECURSIVE str(_)
(* str(n) of a non-negative int: its decimal digits, "0" is code 48 *)
str(n) == IF n < 10 THEN <<48 + n>> ELSE str(n \div 10) \o <<48 + (n % 10)>>

(* Python's str.__lt__: lexicographic on code points, a proper prefix is smaller *)
StrLess(a, b) ==
    \E i \in 1..(Len(a) + 1) :
        /\ \A j \in 1..(i - 1) : j <= Len(b) /\ a[j] = b[j]
        /\ \/ i = Len(a) + 1 /\ Len(b) >= i
           \/ i <= Len(a) /\ i <= Len(b) /\ a[i] < b[i]

RECURSIVE sorted(_)
(* sorted(S) of a set of str: the ascending list of its members *)
sorted(S) ==
    IF S = {} THEN <<>>
    ELSE LET m == CHOOSE x \in S : \A y \in S \ {x} : StrLess(x, y)
         IN  <<m>> \o sorted(S \ {m})

(* The PMIDs of the model: "9", "10", "11", ... (a one-digit and two-digit   *)
(* ones, so that the lexicographic and the numeric order differ)            *)
PmidNumbers == 9..(8 + NumPmids)
PMIDS == {str(n) : n \in PmidNumbers}

----------------------------------------------------------------------------
(* Experiment records                                                      *)
(*                                                                         *)
(* A FunctionalExperiment is modelled by the three fields the pipeline     *)
(* reads: pmid, evaluation and controls_validity.  controls_validity is    *)
(* whatever the extraction response held under that key: a str, modelled   *)
(* by its length, or JSON null (Python None), on which len() raises.       *)

Text(n) == [kind |-> "str", len |-> n]
Null == [kind |-> "null", len |-> 0]

Sized(v) == v.kind = "str"

len(v) == v.len

FunctionalExperiment(pmid, evaluation, controls_validity) ==
    [pmid |-> pmid, evaluation |-> evaluation, controls_validity |-> controls_validity]

----------------------------------------------------------------------------
(* integrate_evidence                                                      *)

pathogenic_support(exps) ==
    LET keep(e) == e.evaluation = "supports_pathogenic" IN SelectSeq(exps, keep)

benign_support(exps) ==
    LET keep(e) == e.evaluation = "supports_benign" IN SelectSeq(exps, keep)

(* Variant: a text of exactly the threshold length passes *)
high_quality_inclusive(exps) ==
    LET keep(e) == len(e.controls_validity) >= QualityThreshold IN SelectSeq(exps, keep)

high_quality(exps) ==
    LET keep(e) == len(e.controls_validity) > QualityThreshold IN SelectSeq(exps, keep)

(* len(e.controls_validity) raises TypeError on a value without a length *)
high_quality_raises(exps) ==
    \E i \in 1..Len(exps) : ~Sized(exps[i].controls_validity)

(* {e.pmid for e in exps} *)
pmid_set(exps) == {exps[i].pmid : i \in 1..Len(exps)}

(* Variant: the PMIDs in the order of their first occurrence, not sorted *)
key_pmids_of_input_order(exps) ==
    LET first(i) == \A j \in 1..(i - 1) : exps[j].pmid # exps[i].pmid
        firsts == SelectSeq([i \in 1..Len(exps) |-> i], first)
    IN  [k \in 1..Len(firsts) |-> exps[firsts[k]].pmid]

(* Variant: only the PMIDs of the experiments that support a decision *)
key_pmids_of_supporting(exps) ==
    LET keep(e) == e.evaluation \in {"supports_pathogenic", "supports_benign"}
    IN  sorted(pmid_set(SelectSeq(exps, keep)))

key_pmids_of(exps) == sorted(pmid_set(exps))

(* Variant: the supporting branches tested before the strong ones *)
decide_supporting_first(high_q_path, high_q_benign) ==
    IF high_q_path # <<>> /\ high_q_benign = <<>>
    THEN [decision |-> "PS3", strength |-> "supporting"]
    ELSE IF high_q_benign # <<>> /\ high_q_path = <<>>
    THEN [decision |-> "BS3", strength |-> "supporting"]
    ELSE IF Cardinality(pmid_set(high_q_path)) >= 2 /\ high_q_benign = <<>>
    THEN [decision |-> "PS3", strength |-> "strong"]
    ELSE IF Cardinality(pmid_set(high_q_benign)) >= 2 /\ high_q_path = <<>>
    THEN [decision |-> "BS3", strength |-> "strong"]
    ELSE [decision |-> "none", strength |-> "None"]

(* Variant: the strong branches without the test of the opposing list *)
decide_ignoring_opposition(high_q_path, high_q_benign) ==
    IF Cardinality(pmid_set(high_q_path)) >= 2
    THEN [decision |-> "PS3", strength |-> "strong"]
    ELSE IF Cardinality(pmid_set(high_q_benign)) >= 2
    THEN [decision |-> "BS3", strength |-> "strong"]
    ELSE IF high_q_path # <<>> /\ high_q_benign = <<>>
    THEN [decision |-> "PS3", strength |-> "supporting"]
    ELSE IF high_q_benign # <<>> /\ high_q_path = <<>>
    THEN [decision |-> "BS3", strength |-> "supporting"]
    ELSE [decision |-> "none", strength |-> "None"]

(* Variant: strong from 3 distinct PMIDs on *)
decide_three_papers(high_q_path, high_q_benign) ==
    IF Cardinality(pmid_set(high_q_path)) >= 3 /\ high_q_benign = <<>>
    THEN [decision |-> "PS3", strength |-> "strong"]
    ELSE IF Cardinality(pmid_set(high_q_benign)) >= 3 /\ high_q_path = <<>>
    THEN [decision |-> "BS3", strength |-> "strong"]
    ELSE IF high_q_path # <<>> /\ high_q_benign = <<>>
    THEN [decision |-> "PS3", strength |-> "supporting"]
    ELSE IF high_q_benign # <<>> /\ high_q_path = <<>>
    THEN [decision |-> "BS3", strength |-> "supporting"]
    ELSE [decision |-> "none", strength |-> "None"]

(* Variant: strong from 2 experiments on, whatever their PMIDs *)
decide_counting_experiments(high_q_path, high_q_benign) ==
    IF Len(high_q_path) >= 2 /\ high_q_benign = <<>>
    THEN [decision |-> "PS3", strength |-> "strong"]
    ELSE IF Len(high_q_benign) >= 2 /\ high_q_path = <<>>
    THEN [decision |-> "BS3", strength |-> "strong"]
    ELSE IF high_q_path # <<>> /\ high_q_benign = <<>>
    THEN [decision |-> "PS3", strength |-> "supporting"]
    ELSE IF high_q_benign # <<>> /\ high_q_path = <<>>
    THEN [decision |-> "BS3", strength |-> "supporting"]
    ELSE [decision |-> "none", strength |-> "None"]

(* the if / elif chain over high_q_path and high_q_benign *)
decide(high_q_path, high_q_benign) ==
    IF Cardinality(pmid_set(high_q_path)) >= 2 /\ high_q_benign = <<>>
    THEN [decision |-> "PS3", strength |-> "strong"]
    ELSE IF Cardinality(pmid_set(high_q_benign)) >= 2 /\ high_q_path = <<>>
    THEN [decision |-> "BS3", strength |-> "strong"]
    ELSE IF high_q_path # <<>> /\ high_q_benign = <<>>
    THEN [decision |-> "PS3", strength |-> "supporting"]
    ELSE IF high_q_benign # <<>> /\ high_q_path = <<>>
    THEN [decision |-> "BS3", strength |-> "supporting"]
    ELSE [decision |-> "none", strength |-> "None"]

(* One sentence of the narrative: which sentence, and the values formatted *)
(* into it.                                                                *)
Clause(c, n, k, s) == [clause |-> c, experiments |-> n, papers |-> k, strength |-> s]

(* Variant: the fixed sentence whenever no experiment supports a decision *)
narrative_of_no_support(exps, d) ==
    IF pathogenic_support(exps) = <<>> /\ benign_support(exps) = <<>>
    THEN <<Clause("no_experiments", 0, 0, "None")>>
    ELSE LET ps == pathogenic_support(exps)
             bs == benign_support(exps)
         IN  (IF ps # <<>>
                 THEN <<Clause("pathogenic", Len(ps), Cardinality(pmid_set(ps)), "None")>>
                 ELSE <<>>)
             \o (IF bs # <<>>
                 THEN <<Clause("benign", Len(bs), Cardinality(pmid_set(bs)), "None")>>
                 ELSE <<>>)
             \o (IF d.decision = "PS3" THEN <<Clause("closing_PS3", 0, 0, d.strength)>>
                 ELSE IF d.decision = "BS3" THEN <<Clause("closing_BS3", 0, 0, d.strength)>>
                 ELSE <<Clause("closing_insufficient", 0, 0, "None")>>)

(* Variant: the benign sentence is appended before the pathogenic one *)
narrative_of_benign_first(exps, d) ==
    IF exps = <<>>
    THEN <<Clause("no_experiments", 0, 0, "None")>>
    ELSE LET ps == pathogenic_support(exps)
             bs == benign_support(exps)
         IN  (IF bs # <<>>
                 THEN <<Clause("benign", Len(bs), Cardinality(pmid_set(bs)), "None")>>
                 ELSE <<>>)
             \o (IF ps # <<>>
                 THEN <<Clause("pathogenic", Len(ps), Cardinality(pmid_set(ps)), "None")>>
                 ELSE <<>>)
             \o (IF ps = <<>> /\ bs = <<>>
                 THEN <<Clause("all_ambiguous", 0, 0, "None")>>
                 ELSE <<>>)
             \o (IF d.decision = "PS3" THEN <<Clause("closing_PS3", 0, 0, d.strength)>>
                 ELSE IF d.decision = "BS3" THEN <<Clause("closing_BS3", 0, 0, d.strength)>>
                 ELSE <<Clause("closing_insufficient", 0, 0, "None")>>)

narrative_of(exps, d) ==
    IF exps = <<>>
    THEN <<Clause("no_experiments", 0, 0, "None")>>
    ELSE LET ps == pathogenic_support(exps)
             bs == benign_support(exps)
         IN  (IF ps # <<>>
                 THEN <<Clause("pathogenic", Len(ps), Cardinality(pmid_set(ps)), "None")>>
                 ELSE <<>>)
             \o (IF bs # <<>>
                 THEN <<Clause("benign", Len(bs), Cardinality(pmid_set(bs)), "None")>>
                 ELSE <<>>)
             \o (IF ps = <<>> /\ bs = <<>>
                 THEN <<Clause("all_ambiguous", 0, 0, "None")>>
                 ELSE <<>>)
             \o (IF d.decision = "PS3" THEN <<Clause("closing_PS3", 0, 0, d.strength)>>
                 ELSE IF d.decision = "BS3" THEN <<Clause("closing_BS3", 0, 0, d.strength)>>
                 ELSE <<Clause("closing_insufficient", 0, 0, "None")>>)

IntegratedAssessment(decision, narrative, strength, key_pmids) ==
    [decision |-> decision, narrative |-> narrative, strength |-> strength,
     key_pmids |-> key_pmids]

(* integrate_evidence raises iff one of the two high_quality calls does *)
integrate_raises(exps) ==
    \/ high_quality_raises(pathogenic_support(exps))
    \/ high_quality_raises(benign_support(exps))

(* Variant: the benign evidence is not filtered by high_quality *)
integrate_evidence_unfiltered_opposition(exps) ==
    LET d == decide(high_quality(pathogenic_support(exps)), benign_support(exps))
    IN  IntegratedAssessment(d.decision, narrative_of(exps, d), d.strength,
                             key_pmids_of(exps))

(* the value integrate_evidence returns when it does not raise *)
integrate_evidence(exps) ==
    LET d == decide(high_quality(pathogenic_support(exps)),
                    high_quality(benign_support(exps)))
    IN  IntegratedAssessment(d.decision, narrative_of(exps, d), d.strength,
                             key_pmids_of(exps))

----------------------------------------------------------------------------
(* VariantInfo                                                             *)

VariantInfo(chrom, pos, ref, alt) ==
    [chrom |-> chrom, pos |-> pos, ref |-> ref, alt |-> alt,
     rsid |-> None, hgvsc |-> None, hgvsp |-> None, gene_symbol |-> None,
     ensembl_transcript |-> None, mane_transcript |-> None]

OptionalFields ==
    {"rsid", "hgvsc", "hgvsp", "gene_symbol", "ensembl_transcript", "mane_transcript"}

(* f"{chrom}:{pos}{ref}>{alt}"  (":" is 58, ">" is 62) *)
genomic_str(v) == v.chrom \o <<58>> \o str(v.pos) \o v.ref \o <<62>> \o v.alt

(* f"{a} {b}" *)
Spaced(a, b) == a \o <<32>> \o b

(* [c for c in s if c] *)
TruthyOnly(s) == SelectSeq(s, Truthy)

search_strings_annotations_only(v) ==
    LET candidates ==
            {v.rsid, v.hgvsc, v.hgvsp}
            \cup (IF Truthy(v.gene_symbol) /\ Truthy(v.hgvsp)
                  THEN {Spaced(v.gene_symbol, v.hgvsp)} ELSE {})
            \cup (IF Truthy(v.gene_symbol) /\ Truthy(v.hgvsc)
                  THEN {Spaced(v.gene_symbol, v.hgvsc)} ELSE {})
    IN  sorted({c \in candidates : Truthy(c)})

search_strings_in_candidate_order(v) ==
    TruthyOnly(<<genomic_str(v), v.rsid, v.hgvsc, v.hgvsp>>
               \o (IF Truthy(v.gene_symbol) /\ Truthy(v.hgvsp)
                   THEN <<Spaced(v.gene_symbol, v.hgvsp)>> ELSE <<>>)
               \o (IF Truthy(v.gene_symbol) /\ Truthy(v.hgvsc)
                   THEN <<Spaced(v.gene_symbol, v.hgvsc)>> ELSE <<>>))

search_strings_unguarded_combos(v) ==
    LET candidates ==
            {genomic_str(v), v.rsid, v.hgvsc, v.hgvsp}
            \cup (IF Truthy(v.gene_symbol)
                  THEN {Spaced(v.gene_symbol, v.hgvsp)} ELSE {})
            \cup (IF Truthy(v.gene_symbol)
                  THEN {Spaced(v.gene_symbol, v.hgvsc)} ELSE {})
    IN  sorted({c \in candidates : Truthy(c)})

search_strings(v) ==
    LET candidates ==
            {genomic_str(v), v.rsid, v.hgvsc, v.hgvsp}
            \cup (IF Truthy(v.gene_symbol) /\ Truthy(v.hgvsp)
                  THEN {Spaced(v.gene_symbol, v.hgvsp)} ELSE {})
            \cup (IF Truthy(v.gene_symbol) /\ Truthy(v.hgvsc)
                  THEN {Spaced(v.gene_symbol, v.hgvsc)} ELSE {})
    IN  sorted({c \in candidates : Truthy(c)})

enrich_with_vep_overwriting_rsid(v, info) ==
    IF info.kind # "dict" THEN v
    ELSE [v EXCEPT
        !.rsid = IF Truthy(info.rsid) THEN info.rsid ELSE @,
        !.gene_symbol = IF Truthy(info.gene_symbol) /\ ~Truthy(v.gene_symbol)
                        THEN info.gene_symbol ELSE @,
        !.hgvsc = IF Truthy(info.hgvsc) THEN info.hgvsc ELSE @,
        !.hgvsp = IF Truthy(info.hgvsp) THEN info.hgvsp ELSE @,
        !.ensembl_transcript = IF Truthy(info.ensembl_transcript)
                               THEN info.ensembl_transcript ELSE @,
        !.mane_transcript = IF Truthy(info.mane_transcript)
                            THEN info.mane_transcript ELSE @]

enrich_with_vep_replacing(v, info) ==
    IF info.kind # "dict" THEN VariantInfo(v.chrom, v.pos, v.ref, v.alt)
    ELSE [VariantInfo(v.chrom, v.pos, v.ref, v.alt) EXCEPT
        !.rsid = IF Truthy(v.rsid) THEN v.rsid ELSE info.rsid,
        !.gene_symbol = IF Truthy(v.gene_symbol) THEN v.gene_symbol ELSE info.gene_symbol,
        !.hgvsc = info.hgvsc,
        !.hgvsp = info.hgvsp,
        !.ensembl_transcript = info.ensembl_transcript,
        !.mane_transcript = info.mane_transcript]

enrich_with_vep_wrong_field(v, info) ==
    IF info.kind # "dict" THEN v
    ELSE [v EXCEPT
        !.rsid = IF Truthy(info.rsid) /\ ~Truthy(v.rsid) THEN info.rsid ELSE @,
        !.gene_symbol = IF Truthy(info.gene_symbol) /\ ~Truthy(v.gene_symbol)
                        THEN info.gene_symbol ELSE @,
        !.hgvsc = IF Truthy(info.hgvsc) THEN info.hgvsc ELSE @,
        !.hgvsp = IF Truthy(info.hgvsp) THEN info.hgvsp ELSE @,
        !.ensembl_transcript = IF Truthy(info.ensembl_transcript)
                               THEN info.ensembl_transcript ELSE @,
        !.alt = IF Truthy(info.mane_transcript)
                THEN info.mane_transcript ELSE @]

(* The value of v after enrich_with_vep(v, info), which updates v in place  *)
(* and returns None.  info is None, the empty dict or a dict; info.get(key) *)
(* is None for a key that is not there.                                    *)
enrich_with_vep(v, info) ==
    IF info.kind # "dict" THEN v
    ELSE [v EXCEPT
        !.rsid = IF Truthy(info.rsid) /\ ~Truthy(v.rsid) THEN info.rsid ELSE @,
        !.gene_symbol = IF Truthy(info.gene_symbol) /\ ~Truthy(v.gene_symbol)
                        THEN info.gene_symbol ELSE @,
        !.hgvsc = IF Truthy(info.hgvsc) THEN info.hgvsc ELSE @,
        !.hgvsp = IF Truthy(info.hgvsp) THEN info.hgvsp ELSE @,
        !.ensembl_transcript = IF Truthy(info.ensembl_transcript)
                               THEN info.ensembl_transcript ELSE @,
        !.mane_transcript = IF Truthy(info.mane_transcript)
                            THEN info.mane_transcript ELSE @]

(* The dict vep_annotate_variant returns: always the six keys, None where  *)
(* the VEP entry had nothing.                                              *)
VepInfo(rsid, hgvsc, hgvsp, gene_symbol, ensembl_transcript, mane_transcript) ==
    [kind |-> "dict",
     rsid |-> rsid, hgvsc |-> hgvsc, hgvsp |-> hgvsp, gene_symbol |-> gene_symbol,
     ensembl_transcript |-> ensembl_transcript, mane_transcript |-> mane_transcript]

(* vep_info = None, and vep_info = {} *)
NoVepInfo == [VepInfo(None, None, None, None, None, None) EXCEPT !.kind = "None"]
EmptyVepInfo == [VepInfo(None, None, None, None, None, None) EXCEPT !.kind = "empty"]

(* "rs1", "c.1", "p.1", "G1", "E1", "N1" *)
VepInfos ==
    { VepInfo(None, None, None, None, None, None),
      VepInfo(<<114, 115, 49>>, None, None, None, None, None),
      VepInfo(<<114, 115, 49>>, <<99, 46, 49>>, <<112, 46, 49>>, <<71, 49>>,
              <<69, 49>>, <<78, 49>>) }

(* What the call of vep_annotate_variant does: raise (HTTP error, malformed *)
(* JSON), return None (empty result list), or return a dict.               *)
VepOutcomes ==
    {[kind |-> "raise", info |-> NoVepInfo], [kind |-> "none", info |-> NoVepInfo]}
    \cup {[kind |-> "dict", info |-> i] : i \in VepInfos}

(* The variant of the run: chrom "2", pos 16, ref "C", alt "G" *)
InputVariant == VariantInfo(<<50>>, 16, <<67>>, <<71>>)

----------------------------------------------------------------------------
(* Step 1 of analyze_variant: VEP annotation inside try / except           *)

Annotate_without_try ==
    /\ pc = "annotate"
    /\ \E o \in VepOutcomes :
          /\ vep_info' = o.info
          /\ vi' = IF o.info.kind = "dict" THEN enrich_with_vep(vi, o.info) ELSE vi
          /\ printed' = {IF o.kind = "raise" THEN "vep_failed"
                         ELSE IF o.kind = "none" THEN "vep_none" ELSE "vep_obtained"}
          /\ pc' = IF o.kind = "raise" THEN "raised" ELSE "retrieve"
    /\ identifiers' = search_strings(vi')
    /\ idx' = 1
    /\ UNCHANGED <<all_pmids, candidate_papers, functional_papers, experiments,
                   assessment, result, pmids, parsed>>

Annotate ==
    /\ pc = "annotate"
    /\ \E o \in VepOutcomes :
          /\ vep_info' = o.info
          /\ vi' = IF o.info.kind = "dict" THEN enrich_with_vep(vi, o.info) ELSE vi
          /\ printed' = {IF o.kind = "raise" THEN "vep_failed"
                         ELSE IF o.kind = "none" THEN "vep_none" ELSE "vep_obtained"}
    /\ identifiers' = search_strings(vi')
    /\ pc' = "retrieve"
    /\ idx' = 1
    /\ UNCHANGED <<all_pmids, candidate_papers, functional_papers, experiments,
                   assessment, result, pmids, parsed>>

----------------------------------------------------------------------------
(* Step 2 of analyze_variant: query_litvar2                                *)

(* One entry of the JSON list LitVar2 answers with: a bare int, a bare str *)
(* or a dict with a 'pmid' key.                                            *)
LitvarItems == {[form |-> f, n |-> n] : f \in {"int", "str", "dict"}, n \in PmidNumbers}

(* The answer to one GET: an exception (timeout, connection, bad JSON), a  *)
(* non-ok status, or a JSON list of entries.                               *)
LitvarResponses ==
    {[kind |-> "raise", items |-> {}], [kind |-> "not_ok", items |-> {}]}
    \cup {[kind |-> "json", items |-> its] : its \in SUBSET LitvarItems}

(* the set query_litvar2_publications returns for a response *)
query_litvar2_publications(resp) ==
    IF resp.kind # "json" THEN {}
    ELSE {str(it.n) : it \in resp.items}

(* Variant: all_pmids = pmids, the last answer replaces the earlier ones *)
QueryLitvar_overwriting ==
    /\ pc = "retrieve"
    /\ idx <= Len(search_strings(vi))
    /\ \E resp \in LitvarResponses :
          /\ pmids' = query_litvar2_publications(resp)
          /\ printed' = IF resp.kind = "raise" THEN {"litvar_failed"}
                        ELSE IF resp.kind = "not_ok" THEN {"litvar_status"} ELSE {}
    /\ all_pmids' = pmids'
    /\ idx' = idx + 1
    /\ UNCHANGED <<pc, vi, candidate_papers, functional_papers, experiments,
                   assessment, result, vep_info,
                   identifiers, parsed>>

(* one iteration of the loop of query_litvar2 *)
QueryLitvar ==
    /\ pc = "retrieve"
    /\ idx <= Len(search_strings(vi))
    /\ \E resp \in LitvarResponses :
          /\ pmids' = query_litvar2_publications(resp)
          /\ printed' = IF resp.kind = "raise" THEN {"litvar_failed"}
                        ELSE IF resp.kind = "not_ok" THEN {"litvar_status"} ELSE {}
    /\ all_pmids' = all_pmids \cup pmids'
    /\ idx' = idx + 1
    /\ UNCHANGED <<pc, vi, candidate_papers, functional_papers, experiments,
                   assessment, result, vep_info,
                   identifiers, parsed>>

(* the loop of query_litvar2 is over: return all_pmids *)
QueryLitvarDone ==
    /\ printed' = {}
    /\ pmids' = {}
    /\ pc = "retrieve"
    /\ idx > Len(search_strings(vi))
    /\ pc' = "metadata"
    /\ idx' = 1
    /\ UNCHANGED <<vi, all_pmids, candidate_papers, functional_papers, experiments,
                   assessment, result, vep_info,
                   identifiers, parsed>>

----------------------------------------------------------------------------
(* Step 3 of analyze_variant: build_candidate_list / pubmed_fetch_details  *)

(* pmid_list = sorted(list(pmids)); empty when pmids is empty *)
pmid_list == sorted(all_pmids)

CandidatePaper(pmid, title) == [pmid |-> pmid, title |-> title]

(* FETCHER.article_by_pmid: raises, returns None, or returns an article    *)
(* (of title "T").                                                         *)
MetapubOutcomes ==
    {[kind |-> "raise", title |-> None], [kind |-> "none", title |-> None],
     [kind |-> "article", title |-> <<84>>]}

(* result[key] = paper on a dict kept in insertion order *)
DictPut(papers, paper) ==
    IF \E i \in 1..Len(papers) : papers[i].pmid = paper.pmid
    THEN [i \in 1..Len(papers) |->
             IF papers[i].pmid = paper.pmid THEN paper ELSE papers[i]]
    ELSE Append(papers, paper)

(* Variant: break instead of continue when metapub fails *)
FetchDetails_stopping_on_error ==
    /\ pc = "metadata"
    /\ idx <= Len(pmid_list)
    /\ \E o \in MetapubOutcomes :
          /\ candidate_papers' =
                IF o.kind = "article"
                THEN DictPut(candidate_papers,
                             CandidatePaper(pmid_list[idx],
                                            IF Truthy(o.title) THEN o.title ELSE <<>>))
                ELSE candidate_papers
          /\ printed' = IF o.kind = "raise" THEN {"metapub_failed"}
                        ELSE IF o.kind = "none" THEN {"no_article"} ELSE {}
          /\ idx' = IF o.kind = "article" THEN idx + 1 ELSE Len(pmid_list) + 1
    /\ UNCHANGED <<pc, vi, all_pmids, functional_papers, experiments, assessment,
                   result, vep_info,
                   identifiers, pmids, parsed>>

(* one iteration of the loop of pubmed_fetch_details *)
FetchDetails ==
    /\ pc = "metadata"
    /\ idx <= Len(pmid_list)
    /\ \E o \in MetapubOutcomes :
          /\ candidate_papers' =
                IF o.kind = "article"
                THEN DictPut(candidate_papers,
                             CandidatePaper(pmid_list[idx],
                                            IF Truthy(o.title) THEN o.title ELSE <<>>))
                ELSE candidate_papers
          /\ printed' = IF o.kind = "raise" THEN {"metapub_failed"}
                        ELSE IF o.kind = "none" THEN {"no_article"} ELSE {}
    /\ idx' = idx + 1
    /\ UNCHANGED <<pc, vi, all_pmids, functional_papers, experiments, assessment,
                   result, vep_info,
                   identifiers, pmids, parsed>>

FetchDetailsDone ==
    /\ printed' = {}
    /\ pc = "metadata"
    /\ idx > Len(pmid_list)
    /\ pc' = "screen"
    /\ idx' = 1
    /\ UNCHANGED <<vi, all_pmids, candidate_papers, functional_papers, experiments,
                   assessment, result, vep_info,
                   identifiers, pmids, parsed>>

----------------------------------------------------------------------------
(* Step 4 of analyze_variant: llm_filter_functional_papers                 *)

FunctionalPaper(pmid, title, justification) ==
    [pmid |-> pmid, title |-> title, justification |-> justification]

(* LLM.invoke raises; or its content is not JSON; or the JSON is not an    *)
(* object; or it is an object whose "is_functional" is true, false, a      *)
(* non-empty text (such as "false") or missing, and whose "justification"  *)
(* is a text ("J"), missing or null.                                       *)
ScreeningResponses ==
    {[kind |-> k, is_functional |-> "missing", justification |-> "missing"] :
        k \in {"raise", "not_json", "not_dict"}}
    \cup {[kind |-> "dict", is_functional |-> f, justification |-> j] :
            f \in {"true", "false", "text", "missing"},
            j \in {"text", "missing", "null"}}

(* no screening response received (yet) *)
NoParsed == [kind |-> "none", is_functional |-> "missing", justification |-> "missing"]

(* the body of the try: TRUE iff it ends in the except branch *)
filter_raises(resp) ==
    \/ resp.kind # "dict"
    \/ resp.is_functional \in {"true", "text"} /\ resp.justification = "null"

(* Variant: the except branch empties the list built so far *)
Filter_clearing_on_error ==
    /\ pc = "screen"
    /\ idx <= Len(candidate_papers)
    /\ \E resp \in ScreeningResponses :
          /\ functional_papers' =
                IF filter_raises(resp) THEN <<>>
                ELSE IF resp.is_functional \in {"true", "text"}
                THEN Append(functional_papers,
                            FunctionalPaper(candidate_papers[idx].pmid,
                                            candidate_papers[idx].title,
                                            IF resp.justification = "text"
                                            THEN <<74>> ELSE <<>>))
                ELSE functional_papers
          /\ printed' = IF filter_raises(resp) THEN {"filtering_failed"} ELSE {}
          /\ parsed' = resp
    /\ idx' = idx + 1
    /\ UNCHANGED <<pc, vi, all_pmids, candidate_papers, experiments, assessment,
                   result, vep_info,
                   identifiers, pmids>>

(* one iteration of the loop of llm_filter_functional_papers *)
Filter ==
    /\ pc = "screen"
    /\ idx <= Len(candidate_papers)
    /\ \E resp \in ScreeningResponses :
          /\ functional_papers' =
                IF ~filter_raises(resp) /\ resp.is_functional \in {"true", "text"}
                THEN Append(functional_papers,
                            FunctionalPaper(candidate_papers[idx].pmid,
                                            candidate_papers[idx].title,
                                            IF resp.justification = "text"
                                            THEN <<74>> ELSE <<>>))
                ELSE functional_papers
          /\ printed' = IF filter_raises(resp) THEN {"filtering_failed"} ELSE {}
          /\ parsed' = resp
    /\ idx' = idx + 1
    /\ UNCHANGED <<pc, vi, all_pmids, candidate_papers, experiments, assessment,
                   result, vep_info,
                   identifiers, pmids>>

FilterDone ==
    /\ printed' = {}
    /\ parsed' = NoParsed
    /\ pc = "screen"
    /\ idx > Len(candidate_papers)
    /\ pc' = "extract"
    /\ idx' = 1
    /\ UNCHANGED <<vi, all_pmids, candidate_papers, functional_papers, experiments,
                   assessment, result, vep_info,
                   identifiers, pmids>>

----------------------------------------------------------------------------
(* Step 5 of analyze_variant: llm_extract_experiments                      *)

Missing == [kind |-> "missing", len |-> 0]

(* One element of the "experiments" list of the extraction response: not a *)
(* JSON object, or an object whose "evaluation" and "controls_validity"    *)
(* keys are missing, null or set.                                          *)
RawElement(is_dict, evaluation, controls_validity) ==
    [is_dict |-> is_dict, evaluation |-> evaluation, controls_validity |-> controls_validity]

RawElements ==
    { RawElement(FALSE, "missing", Missing),
      RawElement(TRUE, "missing", Missing),
      RawElement(TRUE, "supports_pathogenic", Text(QualityThreshold + 1)),
      RawElement(TRUE, "supports_benign", Text(QualityThreshold + 1)),
      RawElement(TRUE, "supports_pathogenic", Null) }

BoundedSeq(S, n) == UNION {[1..k -> S] : k \in 0..n}

(* LLM.invoke raises; or its content is not JSON; or the JSON is not an    *)
(* object; or the object has no "experiments" key; or that key is not a    *)
(* list; or it is a list of elements.                                      *)
ExtractionResponses ==
    {[kind |-> k, elements |-> <<>>] :
        k \in {"raise", "not_json", "not_dict", "no_key", "not_list"}}
    \cup {[kind |-> "list", elements |-> es] : es \in BoundedSeq(RawElements, MaxRawExperiments)}

(* e.get(key, ""): the default only when the key is missing *)
get_evaluation(e) == IF e.evaluation = "missing" THEN "" ELSE e.evaluation
get_controls(e) == IF e.controls_validity = Missing THEN Text(0) ELSE e.controls_validity

(* Variant: the record's pmid is the one the response reports ("8", a PMID *)
(* no lookup returned), not the one of the paper                           *)
extracted_with_reported_pmid(pmid, resp) ==
    IF resp.kind # "list" THEN <<>>
    ELSE LET es == resp.elements
             bad == {i \in 1..Len(es) : ~es[i].is_dict}
             n == IF bad = {} THEN Len(es)
                  ELSE (CHOOSE i \in bad : \A j \in bad : i <= j) - 1
         IN  [i \in 1..n |->
                 FunctionalExperiment(str(8), get_evaluation(es[i]), get_controls(es[i]))]

(* The experiments appended for one paper: the elements before the first   *)
(* one on which e.get raises (the except branch ends the inner loop).      *)
extracted(pmid, resp) ==
    IF resp.kind # "list" THEN <<>>
    ELSE LET es == resp.elements
             bad == {i \in 1..Len(es) : ~es[i].is_dict}
             n == IF bad = {} THEN Len(es)
                  ELSE (CHOOSE i \in bad : \A j \in bad : i <= j) - 1
         IN  [i \in 1..n |->
                 FunctionalExperiment(pmid, get_evaluation(es[i]), get_controls(es[i]))]

(* the body of the try: TRUE iff it ends in the except branch *)
extract_raises(resp) ==
    \/ resp.kind \in {"raise", "not_json", "not_dict"}
    \/ resp.kind = "list" /\ \E i \in 1..Len(resp.elements) : ~resp.elements[i].is_dict

(* one iteration of the loop of llm_extract_experiments; text_ok is the    *)
(* outcome of fetch_full_text_or_abstract, which warns and returns "" on   *)
(* failure, after which the LLM is invoked all the same                    *)
Extract ==
    /\ pc = "extract"
    /\ idx <= Len(functional_papers)
    /\ \E text_ok \in BOOLEAN, resp \in ExtractionResponses :
          /\ experiments' = experiments \o extracted(functional_papers[idx].pmid, resp)
          /\ printed' = (IF text_ok THEN {} ELSE {"fetch_failed"})
                        \cup (IF extract_raises(resp) THEN {"extraction_failed"} ELSE {})
    /\ idx' = idx + 1
    /\ UNCHANGED <<pc, vi, all_pmids, candidate_papers, functional_papers, assessment,
                   result, vep_info,
                   identifiers, pmids, parsed>>

ExtractDone ==
    /\ printed' = {}
    /\ pc = "extract"
    /\ idx > Len(functional_papers)
    /\ pc' = "integrate"
    /\ idx' = 1
    /\ UNCHANGED <<vi, all_pmids, candidate_papers, functional_papers, experiments,
                   assessment, result, vep_info,
                   identifiers, pmids, parsed>>

----------------------------------------------------------------------------
(* Step 6 of analyze_variant: assessment = integrate_evidence(experiments) *)

Integrate ==
    /\ pc = "integrate"
    /\ printed' = {}
    /\ IF integrate_raises(experiments)
       THEN /\ pc' = "raised"
            /\ UNCHANGED assessment
       ELSE /\ pc' = "report"
            /\ assessment' = <<integrate_evidence(experiments)>>
    /\ UNCHANGED <<idx, vi, all_pmids, candidate_papers, functional_papers,
                   experiments, result, vep_info,
                   identifiers, pmids, parsed>>

----------------------------------------------------------------------------
(* Step 7 of analyze_variant: print_report, then return the dict           *)

Return ==
    /\ pc = "report"
    /\ printed' = {}
    /\ result' = <<[variant_info |-> vi,
                    candidate_papers |-> candidate_papers,
                    functional_papers |-> functional_papers,
                    experiments |-> experiments,
                    assessment |-> assessment[1]]>>
    /\ pc' = "done"
    /\ UNCHANGED <<idx, vi, all_pmids, candidate_papers, functional_papers,
                   experiments, assessment, vep_info, identifiers, pmids, parsed>>

----------------------------------------------------------------------------
(* A run of analyze_variant *)

Init ==
    /\ pc = "annotate"
    /\ idx = 1
    /\ vi = InputVariant
    /\ all_pmids = {}
    /\ candidate_papers = <<>>
    /\ functional_papers = <<>>
    /\ experiments = <<>>
    /\ assessment = <<>>
    /\ result = <<>>
    /\ vep_info = NoVepInfo
    /\ identifiers = <<>>
    /\ printed = {}
    /\ pmids = {}
    /\ parsed = NoParsed

Next ==
    \/ Annotate
    \/ QueryLitvar
    \/ QueryLitvarDone
    \/ FetchDetails
    \/ FetchDetailsDone
    \/ Filter
    \/ FilterDone
    \/ Extract
    \/ ExtractDone
    \/ Integrate
    \/ Return

Spec == Init /\ [][Next]_vars

----------------------------------------------------------------------------
(* integrate_evidence on its own: called on any list of experiment records *)
(* of up to MaxExperiments elements.                                       *)

Evaluations == {"supports_pathogenic", "supports_benign", "ambiguous", "low_quality"}
ControlsValues == {Text(QualityThreshold), Text(QualityThreshold + 1), Null}
ExperimentRecords ==
    {FunctionalExperiment(p, ev, cv) : p \in PMIDS, ev \in Evaluations, cv \in ControlsValues}

InitIntegrate ==
    /\ pc = "integrate"
    /\ idx = 1
    /\ vi = InputVariant
    /\ all_pmids = {}
    /\ candidate_papers = <<>>
    /\ functional_papers = <<>>
    /\ experiments \in BoundedSeq(ExperimentRecords, MaxExperiments)
    /\ assessment = <<>>
    /\ result = <<>>
    /\ vep_info = NoVepInfo
    /\ identifiers = <<>>
    /\ printed = {}
    /\ pmids = {}
    /\ parsed = NoParsed

NextIntegrate ==
    \/ Integrate
    \/ Return

SpecIntegrate == InitIntegrate /\ [][NextIntegrate]_vars

----------------------------------------------------------------------------
(* VariantInfo on its own: an identity is constructed, enrich_with_vep is  *)
(* called on it any number of times, then search_strings is called twice   *)

(* "N" and "r": the values annotations give to the fields.  The same two   *)
(* for every field, so that two fields of an identity can hold one string; *)
(* "N" sorts before and "r" after the genomic string of chromosome X.      *)
FieldValues == {<<78>>, <<114>>}

(* The dicts passed to enrich_with_vep: one field given, or all six given  *)
(* the same value, or all six None, or all six the empty string.           *)
EnrichDicts ==
    {[VepInfo(None, None, None, None, None, None) EXCEPT ![f] = x] :
        f \in OptionalFields, x \in FieldValues}
    \cup {VepInfo(x, x, x, x, x, x) : x \in FieldValues \cup {None, <<>>}}

EnrichInputs == {NoVepInfo, EmptyVepInfo} \cup EnrichDicts

(* VariantInfo(...) as constructed: 2:16C>G and X:7A>T with the optional   *)
(* fields left to their default, and 2:16C>G constructed with rsid, hgvsp  *)
(* and gene_symbol the empty string.                                       *)
ConstructedVariants ==
    { InputVariant,
      VariantInfo(<<88>>, 7, <<65>>, <<84>>),
      [InputVariant EXCEPT !.rsid = <<>>, !.hgvsp = <<>>, !.gene_symbol = <<>>] }

InitEnrich ==
    /\ pc = "enrich"
    /\ idx = 1
    /\ vi \in ConstructedVariants
    /\ all_pmids = {}
    /\ candidate_papers = <<>>
    /\ functional_papers = <<>>
    /\ experiments = <<>>
    /\ assessment = <<>>
    /\ result = <<>>
    /\ vep_info = NoVepInfo
    /\ identifiers = <<>>
    /\ printed = {}
    /\ pmids = {}
    /\ parsed = NoParsed

(* enrich_with_vep(vi, info): vi is updated in place, nothing is returned *)
Enrich ==
    /\ pc = "enrich"
    /\ \E info \in EnrichInputs :
          /\ vep_info' = info
          /\ vi' = enrich_with_vep(vi, info)
    /\ UNCHANGED <<pc, idx, all_pmids, candidate_papers, functional_papers, experiments,
                   assessment, result, identifiers, printed, pmids, parsed>>

(* vi.search_strings(), a first and a second time *)
SearchStrings ==
    /\ pc \in {"enrich", "searched"}
    /\ identifiers' = search_strings(vi)
    /\ pc' = IF pc = "enrich" THEN "searched" ELSE "searched_twice"
    /\ UNCHANGED <<idx, vi, all_pmids, candidate_papers, functional_papers, experiments,
                   assessment, result, vep_info, printed, pmids, parsed>>

NextEnrich ==
    \/ Enrich
    \/ SearchStrings

SpecEnrich == InitEnrich /\ [][NextEnrich]_vars

----------------------------------------------------------------------------
(* Properties of integrate_evidence                                        *)

(* integrate_evidence has returned: assessment holds its value for the     *)
(* current experiments                                                     *)
Returned == assessment # <<>>

(* the indices of the experiments of evaluation ev whose controls_validity *)
(* is a text of more than 40 characters                                    *)
HighConfidence(ev) ==
    {i \in 1..Len(experiments) :
        /\ experiments[i].evaluation = ev
        /\ experiments[i].controls_validity.kind = "str"
        /\ experiments[i].controls_validity.len > 40}

WithEvaluation(ev) == {i \in 1..Len(experiments) : experiments[i].evaluation = ev}

PmidsAt(I) == {experiments[i].pmid : i \in I}

AllText == \A i \in 1..Len(experiments) : experiments[i].controls_validity.kind = "str"

Is(decision, strength) ==
    assessment[1].decision = decision /\ assessment[1].strength = strength

(* C1: for every list of experiment records (controls_validity a text),    *)
(* integrate returns, and its decision and strength are those of the       *)
(* five-branch rule over highQualPath and highQualBenign, first match wins *)
C1_FiveBranchRule ==
    LET P == HighConfidence("supports_pathogenic")
        B == HighConfidence("supports_benign")
    IN  /\ (AllText /\ pc \in {"report", "done", "raised"}) => Returned
        /\ Returned =>
             IF Cardinality(PmidsAt(P)) >= 2 /\ B = {} THEN Is("PS3", "strong")
             ELSE IF Cardinality(PmidsAt(B)) >= 2 /\ P = {} THEN Is("BS3", "strong")
             ELSE IF P # {} /\ B = {} THEN Is("PS3", "supporting")
             ELSE IF B # {} /\ P = {} THEN Is("BS3", "supporting")
             ELSE Is("none", "None")

C1_Witness ==
    /\ Returned
    /\ Len(experiments) = MaxExperiments
    /\ Is("BS3", "strong")

(* C2: with at least one high-confidence pathogenic and at least one       *)
(* high-confidence benign experiment the result is none, strength absent   *)
C2_OpposingSignalsGiveNone ==
    (/\ Returned
     /\ HighConfidence("supports_pathogenic") # {}
     /\ HighConfidence("supports_benign") # {})
    => Is("none", "None")

C2_Witness ==
    /\ Returned
    /\ Cardinality(PmidsAt(HighConfidence("supports_pathogenic"))) >= 2
    /\ Cardinality(HighConfidence("supports_benign")) = 1
    /\ Is("none", "None")

(* C3: pathogenic-evaluation experiments from at least 2 distinct PMIDs,   *)
(* each of controls_validity longer than 40, and no benign-evaluation      *)
(* experiment give PS3 / strong; symmetrically BS3 / strong                *)
C3_TwoPapersGiveStrong ==
    LET Case(ev, other, decision) ==
            (/\ Returned
             /\ WithEvaluation(ev) = HighConfidence(ev)
             /\ Cardinality(PmidsAt(WithEvaluation(ev))) >= 2
             /\ WithEvaluation(other) = {})
            => Is(decision, "strong")
    IN  /\ Case("supports_pathogenic", "supports_benign", "PS3")
        /\ Case("supports_benign", "supports_pathogenic", "BS3")

C3_Witness ==
    /\ Returned
    /\ Len(experiments) = 2
    /\ WithEvaluation("supports_pathogenic") = {1, 2}
    /\ Is("PS3", "strong")

(* C4: strong is never produced from single-paper evidence: strong needs   *)
(* high-confidence experiments of 2 distinct PMIDs, and high-confidence    *)
(* pathogenic experiments that all share one PMID, with no benign-support  *)
(* experiment, give PS3 / supporting                                       *)
C4_SinglePaperIsSupporting ==
    LET P == HighConfidence("supports_pathogenic")
        B == HighConfidence("supports_benign")
    IN  Returned =>
          /\ (P # {} /\ Cardinality(PmidsAt(P)) = 1
                /\ WithEvaluation("supports_benign") = {})
             => Is("PS3", "supporting")
          /\ Is("PS3", "strong") => Cardinality(PmidsAt(P)) >= 2
          /\ Is("BS3", "strong") => Cardinality(PmidsAt(B)) >= 2

C4_Witness ==
    /\ Returned
    /\ Cardinality(HighConfidence("supports_pathogenic")) >= 2
    /\ Cardinality(PmidsAt(HighConfidence("supports_pathogenic"))) = 1
    /\ WithEvaluation("supports_benign") = {}
    /\ Is("PS3", "supporting")

(* C5: integrate of the empty list is none, strength absent, no key PMIDs  *)
(* and the fixed "no experiments" sentence; that sentence is in the        *)
(* narrative of no other input                                             *)
C5_EmptyInput ==
    Returned =>
      IF experiments = <<>>
      THEN /\ Is("none", "None")
           /\ assessment[1].key_pmids = <<>>
           /\ assessment[1].narrative = <<Clause("no_experiments", 0, 0, "None")>>
      ELSE \A k \in 1..Len(assessment[1].narrative) :
              assessment[1].narrative[k].clause # "no_experiments"

C5_Witness ==
    /\ Returned
    /\ experiments = <<>>
    /\ pc = "report"

(* the lists that are reorderings of s *)
Reorderings(s) == {[i \in 1..Len(s) |-> s[f[i]]] : f \in Permutations(1..Len(s))}

Ascending(s) == \A i, j \in 1..Len(s) : i < j => StrLess(s[i], s[j])

(* C6: integrate of any reordering of the input returns the same decision, *)
(* strength, narrative and key_pmids, and key_pmids is in ascending order  *)
C6_PermutationInvariant ==
    Returned =>
      /\ \A q \in Reorderings(experiments) :
            ~integrate_raises(q) /\ integrate_evidence(q) = assessment[1]
      /\ Ascending(assessment[1].key_pmids)

(* the input names PMID "9" before PMID "10", which sorts first *)
C6_Witness ==
    /\ Returned
    /\ Len(experiments) >= 2
    /\ experiments[1].pmid = str(9)
    /\ experiments[2].pmid = str(10)
    /\ experiments[1].evaluation # experiments[2].evaluation

(* C7: key_pmids is exactly the set of the PMIDs of all input experiments, *)
(* whatever their evaluation or quality, without duplicates, ascending     *)
C7_KeyPmidsAreAllPmids ==
    Returned =>
      LET k == assessment[1].key_pmids
      IN  /\ {k[i] : i \in 1..Len(k)} = PmidsAt(1..Len(experiments))
          /\ \A i, j \in 1..Len(k) : i # j => k[i] # k[j]
          /\ Ascending(k)

C7_Witness ==
    /\ Returned
    /\ WithEvaluation("supports_pathogenic") = {}
    /\ WithEvaluation("supports_benign") = {}
    /\ Len(assessment[1].key_pmids) = 2
    /\ Is("none", "None")

----------------------------------------------------------------------------
(* Properties of a run of analyze_variant                                  *)

(* C8: integrate is total: on every experiment list the extraction stage   *)
(* can build, null controls_validity included, it returns an Assessment    *)
C8_IntegrateIsTotal ==
    pc \in {"report", "done", "raised"} => Returned

(* C9: whatever the collaborators answer, the run ends by returning a      *)
(* result with its five fields, of decision none when no experiment was    *)
(* extracted                                                               *)
C9_RunAlwaysReturns ==
    /\ pc # "raised"
    /\ pc = "done" =>
         /\ result # <<>>
         /\ DOMAIN result[1] = {"variant_info", "candidate_papers", "functional_papers",
                                "experiments", "assessment"}
         /\ result[1].experiments = <<>> => result[1].assessment.decision = "none"

IsPrefix(s, t) == Len(s) <= Len(t) /\ SubSeq(t, 1, Len(s)) = s

(* what the items after position n of list t were contributed by *)
NewPmids(s, t) == {t[k].pmid : k \in (Len(s) + 1)..Len(t)}

C10_Step ==
    /\ (pc = "retrieve" /\ idx <= Len(search_strings(vi))) =>
          /\ pc' = "retrieve" /\ idx' = idx + 1
          /\ all_pmids \subseteq all_pmids'
    /\ (pc = "metadata" /\ idx <= Len(pmid_list)) =>
          /\ pc' = "metadata" /\ idx' = idx + 1
          /\ all_pmids' = all_pmids
          /\ IsPrefix(candidate_papers, candidate_papers')
          /\ NewPmids(candidate_papers, candidate_papers') \subseteq {pmid_list[idx]}
    /\ (pc = "screen" /\ idx <= Len(candidate_papers)) =>
          /\ pc' = "screen" /\ idx' = idx + 1
          /\ candidate_papers' = candidate_papers
          /\ IsPrefix(functional_papers, functional_papers')
          /\ NewPmids(functional_papers, functional_papers')
                \subseteq {candidate_papers[idx].pmid}
    /\ (pc = "extract" /\ idx <= Len(functional_papers)) =>
          /\ pc' = "extract" /\ idx' = idx + 1
          /\ functional_papers' = functional_papers
          /\ IsPrefix(experiments, experiments')
          /\ NewPmids(experiments, experiments') \subseteq {functional_papers[idx].pmid}
    /\ pc \in {"retrieve", "metadata", "screen", "extract"} => pc' # "raised"

(* C10: in the retrieval, metadata, screening and extraction loops, the    *)
(* step for one item, failed or not, keeps every result contributed by the *)
(* other items as it is, goes on to the next item and never raises         *)
C10_SiblingIsolation == [][C10_Step]_vars

(* the metadata call failed for the first PMID of the list and the paper   *)
(* of the second one is there, and was screened and extracted from         *)
C10_Witness ==
    /\ pc = "done"
    /\ Cardinality(all_pmids) >= 2
    /\ Len(candidate_papers) = Cardinality(all_pmids) - 1
    /\ candidate_papers[1].pmid = pmid_list[2]
    /\ functional_papers # <<>>
    /\ experiments # <<>>

----------------------------------------------------------------------------
(* Extraction failures                                                      *)

(* the paper whose iteration of the extraction loop has just ended *)
JustExtracted == pc = "extract" /\ idx > 1

CarryingPmid(pmid) == {i \in 1..Len(experiments) : experiments[i].pmid = pmid}

(* C11: when the text fetch failed, the extraction call failed or the       *)
(* extraction response was malformed for a functional paper, the            *)
(* experiments list holds no experiment carrying that paper's PMID          *)
C11_FailedPaperYieldsNothing ==
    (JustExtracted /\ printed \cap {"fetch_failed", "extraction_failed"} # {})
        => CarryingPmid(functional_papers[idx - 1].pmid) = {}

----------------------------------------------------------------------------
(* Annotation failures                                                      *)

Unenriched(v) == \A f \in OptionalFields : v[f] = None

(* C12: when the annotation call raised or returned no match, the run goes  *)
(* on to the retrieval stage with every optional field of the identity      *)
(* unset and the genomic string as its only search identifier, and the      *)
(* identity stays so in the later stages                                    *)
C12_AnnotationIsBestEffort ==
    /\ (printed \cap {"vep_failed", "vep_none"} # {}) =>
          /\ pc = "retrieve" /\ idx = 1
          /\ vep_info.kind = "None"
    /\ (vep_info.kind = "None" /\ pc # "annotate") =>
          /\ Unenriched(vi)
          /\ identifiers = <<genomic_str(vi)>>
          /\ search_strings(vi) = identifiers

(* a run whose annotation call failed went through every later stage and    *)
(* returned a result with experiments                                       *)
C12_Witness ==
    /\ pc = "done"
    /\ vep_info.kind = "None"
    /\ result # <<>>
    /\ experiments # <<>>

----------------------------------------------------------------------------
(* enrich_with_vep                                                          *)

(* the step is a call of enrich_with_vep, with annotation vep_info' *)
EnrichCall == pc = "enrich" /\ pc' = "enrich"

(* the annotation gives a value to field f *)
Provides(info, f) == info.kind = "dict" /\ Truthy(info[f])

C13_Step ==
    EnrichCall =>
        /\ \A f \in {"rsid", "gene_symbol"} :
              /\ Truthy(vi[f]) => vi'[f] = vi[f]
              /\ (~Truthy(vi[f]) /\ Provides(vep_info', f)) => vi'[f] = vep_info'[f]
              /\ (~Truthy(vi[f]) /\ ~Provides(vep_info', f)) => vi'[f] = vi[f]
        /\ \A f \in {"hgvsc", "hgvsp"} :
              vi'[f] = IF Provides(vep_info', f) THEN vep_info'[f] ELSE vi[f]

(* C13: a call of enrich never replaces an rsid or gene_symbol that is set  *)
(* (it fills them when they are unset), and sets hgvsc and hgvsp to the     *)
(* annotation's value whenever the annotation provides one, so that after   *)
(* any sequence of calls they hold the value of the latest provider         *)
C13_FillAndOverwrite == [][C13_Step]_vars

(* the last annotation gave an rsid and an hgvsc: the identity kept the     *)
(* different rsid it had and holds the annotation's hgvsc                   *)
C13_Witness ==
    /\ pc = "enrich"
    /\ Provides(vep_info, "rsid")
    /\ Provides(vep_info, "hgvsc")
    /\ Truthy(vi.rsid)
    /\ vi.rsid # vep_info.rsid
    /\ vi.hgvsc = vep_info.hgvsc

C14_Step ==
    EnrichCall =>
        \A f \in {"ensembl_transcript", "mane_transcript"} :
            Truthy(vi[f]) => vi'[f] = vi[f]

(* C14: a call of enrich never overwrites an ensembl or mane transcript id  *)
(* that is already set on the identity                                      *)
C14_TranscriptsFillIfAbsent == [][C14_Step]_vars

C15_OriginalStep == EnrichCall => vi' = vi

(* C15 as stated: a call of enrich leaves the identity passed to it         *)
(* unchanged (its result is a new value)                                    *)
C15_EnrichLeavesArgumentUnchanged == [][C15_OriginalStep]_vars

C15_Step ==
    EnrichCall =>
        /\ vep_info'.kind # "dict" => vi' = vi
        /\ \A f \in OptionalFields :
              (Provides(vep_info', f) /\ ~Truthy(vi[f])) => vi'[f] = vep_info'[f]

(* C15, amended: a call of enrich updates the identity passed to it in      *)
(* place (afterwards that identity holds the annotation's value in every    *)
(* optional field that was unset and that the annotation provides), and it  *)
(* is a no-op when the annotation is absent or empty                        *)
C15_EnrichUpdatesInPlace == [][C15_Step]_vars

(* the identity passed to two calls holds the rsid the earlier annotation   *)
(* gave and the mane transcript the last one gave                           *)
C15_Witness ==
    /\ pc = "enrich"
    /\ Provides(vep_info, "mane_transcript")
    /\ vi.mane_transcript = vep_info.mane_transcript
    /\ ~Provides(vep_info, "rsid")
    /\ Truthy(vi.rsid)

----------------------------------------------------------------------------
(* The identity key                                                         *)

(* a run of analyze_variant, or a sequence of calls on a constructed        *)
(* VariantInfo                                                              *)
InitIdentity == Init \/ InitEnrich

NextIdentity == Next \/ NextEnrich

SpecIdentity == InitIdentity /\ [][NextIdentity]_vars

key(v) == <<v.chrom, v.pos, v.ref, v.alt>>

(* C16: chrom, pos, ref and alt of the identity are the same after every    *)
(* step as before it: every call of enrich, with any annotation, every call *)
(* of search_strings and every stage of a run                               *)
C16_KeyNeverChanges == [][key(vi') = key(vi)]_vars

(* a run that enriched its identity has returned, the key still the one     *)
(* the identity was constructed with                                        *)
C16_Witness ==
    /\ pc = "done"
    /\ ~Unenriched(vi)
    /\ result # <<>>
    /\ key(result[1].variant_info) = key(InputVariant)

----------------------------------------------------------------------------
(* search_strings                                                           *)

Range(s) == {s[i] : i \in 1..Len(s)}

(* the step is a call of vi.search_strings(), identifiers' its result *)
SearchCall == pc \in {"enrich", "searched"} /\ pc' \in {"searched", "searched_twice"}

C17_Step ==
    SearchCall =>
        /\ identifiers' # <<>>
        /\ genomic_str(vi) \in Range(identifiers')
        /\ pc = "searched" => identifiers' = identifiers

C18_SortedNoDuplicates ==
    pc \in {"searched", "searched_twice"} =>
        /\ Cardinality(Range(identifiers)) = Len(identifiers)
        /\ Ascending(identifiers)

(* rsid, hgvsc and hgvsp hold one string, and an identifier sorts on each   *)
(* side of the genomic string                                               *)
C18_Witness ==
    /\ pc = "searched"
    /\ Truthy(vi.hgvsc)
    /\ vi.hgvsc = vi.hgvsp
    /\ vi.rsid = vi.hgvsc
    /\ Len(identifiers) >= 3
    /\ identifiers[1] # genomic_str(vi)
    /\ identifiers[Len(identifiers)] # genomic_str(vi)

Present(v, f) == v[f] # None /\ Len(v[f]) > 0

(* the strings the contract of search_strings lists *)
ContractIdentifiers(v) ==
    {genomic_str(v)}
    \cup {v[f] : f \in {g \in {"rsid", "hgvsc", "hgvsp"} : Present(v, g)}}
    \cup {Spaced(v.gene_symbol, v[f]) :
            f \in {g \in {"hgvsp", "hgvsc"} : Present(v, "gene_symbol") /\ Present(v, g)}}

(* C19: the strings search_strings returns are the genomic string, rsid,    *)
(* hgvsc and hgvsp each when set and not empty, "{gene_symbol} {hgvsp}" and  *)
(* "{gene_symbol} {hgvsc}" each when both components are set and not empty,  *)
(* and nothing else                                                         *)
C19_ExactIdentifiers ==
    pc \in {"searched", "searched_twice"} =>
        Range(identifiers) = ContractIdentifiers(vi)

(* gene_symbol and hgvsc are set and hgvsp is not: one combined string *)
C19_Witness ==
    /\ pc = "searched"
    /\ Truthy(vi.gene_symbol)
    /\ Truthy(vi.hgvsc)
    /\ ~Truthy(vi.hgvsp)
    /\ Spaced(vi.gene_symbol, vi.hgvsc) \in Range(identifiers)
    /\ Len(identifiers) = 3

----------------------------------------------------------------------------
(* The high-confidence filter                                               *)

(* the indices of the experiments of evaluation ev whose controls_validity *)
(* is a text of at least n characters                                      *)
AtLeast(ev, n) ==
    {i \in WithEvaluation(ev) :
        /\ experiments[i].controls_validity.kind = "str"
        /\ experiments[i].controls_validity.len >= n}

(* whether an experiment whose controls_validity has n characters passes   *)
(* the filter                                                              *)
Passes(n) ==
    high_quality(<<FunctionalExperiment(<<57>>, "supports_pathogenic", Text(n))>>) # <<>>

LengthsAroundThreshold == 38..43

(* C20: an experiment counts towards the decision iff its controls_validity *)
(* has more than 40 characters (41 or more; exactly 40 does not count), and *)
(* the filter is monotone: when a text of n characters passes, every text   *)
(* of at least n characters passes                                          *)
C20_ThresholdIsStrict ==
    /\ Returned =>
          /\ assessment[1].decision = "PS3"
                <=> (AtLeast("supports_pathogenic", 41) # {}
                     /\ AtLeast("supports_benign", 41) = {})
          /\ assessment[1].decision = "BS3"
                <=> (AtLeast("supports_benign", 41) # {}
                     /\ AtLeast("supports_pathogenic", 41) = {})
    /\ \A n \in LengthsAroundThreshold : Passes(n) <=> n > 40
    /\ \A n, m \in LengthsAroundThreshold : (Passes(n) /\ n <= m) => Passes(m)

(* two supporting experiments of two papers, one with 40 and one with 41    *)
(* characters: only the second counts, so the evidence is of one paper      *)
C20_Witness ==
    /\ Returned
    /\ Len(experiments) = 2
    /\ experiments[1].pmid # experiments[2].pmid
    /\ WithEvaluation("supports_pathogenic") = {1, 2}
    /\ experiments[1].controls_validity = Text(40)
    /\ experiments[2].controls_validity = Text(41)
    /\ Is("PS3", "supporting")

----------------------------------------------------------------------------
(* Retrieval and metadata                                                   *)

PmidsOf(papers) == {papers[i].pmid : i \in 1..Len(papers)}

(* the step is one iteration of the given loop *)
LoopStep(stage, n) == pc = stage /\ idx <= n

C21_Step ==
    /\ IF LoopStep("retrieve", Len(identifiers))
       THEN all_pmids' = all_pmids \cup pmids'
       ELSE all_pmids' = all_pmids
    /\ Cardinality(PmidsOf(candidate_papers')) = Len(candidate_papers')
    /\ PmidsOf(candidate_papers') \subseteq all_pmids'

(* C21: each query of the retrieval stage adds the PMID set it returned to  *)
(* the accumulated set, which no other step changes, so that the set is the *)
(* union over the identifiers; and candidate_papers never holds two papers  *)
(* of one PMID, and only papers of retrieved PMIDs                          *)
C21_UnionAndOnePaperPerPmid == [][C21_Step]_vars

(* the second identifier's query returned PMIDs, and the set also holds a   *)
(* PMID that only the first one returned                                    *)
C21_Witness ==
    /\ pc = "retrieve"
    /\ idx = 3
    /\ pmids # {}
    /\ pmids \subseteq all_pmids
    /\ pmids # all_pmids

C22_Step ==
    IF LoopStep("metadata", Len(pmid_list))
    THEN /\ pc' = "metadata" /\ idx' = idx + 1
         /\ IF printed' \cap {"metapub_failed", "no_article"} # {}
            THEN candidate_papers' = candidate_papers
            ELSE /\ Len(candidate_papers') = Len(candidate_papers) + 1
                 /\ SubSeq(candidate_papers', 1, Len(candidate_papers)) = candidate_papers
                 /\ candidate_papers'[Len(candidate_papers')].pmid = pmid_list[idx]
    ELSE candidate_papers' = candidate_papers

(* C22: the metadata step of a PMID adds the paper of that PMID when the    *)
(* fetch resolved it and adds nothing when the fetch raised or returned no  *)
(* article; it always goes on to the next PMID, and no other step changes   *)
(* candidate_papers                                                         *)
C22_PaperIffResolved == [][C22_Step]_vars

(* the fetch of the first of two PMIDs failed, the second was resolved *)
C22_Witness ==
    /\ pc = "metadata"
    /\ idx = 3
    /\ printed = {}
    /\ PmidsOf(candidate_papers) = {pmid_list[2]}

----------------------------------------------------------------------------
(* Screening                                                                *)

(* the step appended the paper of candidate idx to functional_papers *)
AppendedFunctional ==
    /\ Len(functional_papers') = Len(functional_papers) + 1
    /\ functional_papers'[Len(functional_papers')].pmid = candidate_papers[idx].pmid

(* the response is a JSON object whose is_functional is the boolean true    *)
(* (a missing justification is tolerated, a null one is not)                *)
FunctionalResponse(resp) ==
    resp.kind = "dict" /\ resp.is_functional = "true" /\ resp.justification # "null"

C23_Step ==
    LoopStep("screen", Len(candidate_papers)) =>
        /\ AppendedFunctional <=> FunctionalResponse(parsed')
        /\ ~AppendedFunctional => functional_papers' = functional_papers

(* C23: the screening step of a candidate paper adds it to                  *)
(* functional_papers iff the call succeeded with a well-formed response     *)
(* whose is_functional is true; otherwise the paper is left out             *)
C23_FunctionalIffTrueResponse == [][C23_Step]_vars

----------------------------------------------------------------------------
(* Collaborators that never answer                                          *)

(* Step 1 when the VEP server accepts the request and never answers:        *)
(* requests.post is called without a timeout, so it waits forever and       *)
(* analyze_variant stays inside vep_annotate_variant.  (The requests of     *)
(* LitVar2 and Entrez carry timeout=30: there a silent server is the        *)
(* raising outcome of QueryLitvar and of Extract's text fetch.)             *)
AnnotateNeverAnswers ==
    /\ pc = "annotate"
    /\ pc' = "blocked"
    /\ UNCHANGED <<idx, vi, all_pmids, candidate_papers, functional_papers, experiments,
                   assessment, result, vep_info, identifiers, printed, pmids, parsed>>

NextTimeouts ==
    \/ Next
    \/ AnnotateNeverAnswers

(* the interpreter goes on executing analyze_variant as long as it has a    *)
(* next statement to execute                                                *)
SpecTimeouts == Init /\ [][NextTimeouts]_vars /\ WF_vars(NextTimeouts)

(* C24: no external call blocks indefinitely, so every run of               *)
(* analyze_variant eventually ends, also when a collaborator never answers  *)
C24_RunEventuallyEnds == <>(pc \in {"done", "raised"})

----------------------------------------------------------------------------
(* Order of the stages                                                      *)

(* the positions of analyze_variant, in the order of its statements *)
Stages ==
    <<"annotate", "retrieve", "metadata", "screen", "extract", "integrate", "report",
      "done">>

StageRank(p) == CHOOSE i \in 1..Len(Stages) : Stages[i] = p

C25_Step ==
    /\ pc' \in Range(Stages)
    /\ StageRank(pc') \in {StageRank(pc), StageRank(pc) + 1}
    /\ pc = "annotate" => identifiers' = search_strings(vi')
    /\ (pc = "extract" /\ pc' = "integrate") => idx > Len(functional_papers)
    /\ pc = "integrate" => (assessment = <<>> /\ Len(assessment') = 1)
    /\ pc # "integrate" => assessment' = assessment

(* C25: a run goes through annotation (ending with the derivation of the    *)
(* identifiers), retrieval, metadata, screening, extraction and integration *)
(* in this order, never backwards; the integration step, taken only when    *)
(* the extraction loop is over, produces the assessment, and no other step  *)
(* produces or changes it                                                   *)
C25_ForwardOrderOneAssessment == [][C25_Step]_vars

----------------------------------------------------------------------------
(* Experiment records                                                       *)

(* C26: every record of the experiments list has a text (the empty one when *)
(* the key was missing or null) as its controls_validity and carries the    *)
(* PMID of a functional paper                                               *)
C26_RecordFieldsAreTexts ==
    \A i \in 1..Len(experiments) :
        /\ experiments[i].controls_validity.kind = "str"
        /\ experiments[i].pmid \in PmidsOf(functional_papers)

----------------------------------------------------------------------------
(* The narrative                                                            *)

ClauseRank(c) ==
    IF c = "pathogenic" THEN 1
    ELSE IF c = "benign" THEN 2
    ELSE IF c = "all_ambiguous" THEN 3
    ELSE IF c \in {"closing_PS3", "closing_BS3", "closing_insufficient"} THEN 4
    ELSE 0

(* the closing sentence that goes with a decision *)
ClosingOf(decision) ==
    IF decision = "PS3" THEN "closing_PS3"
    ELSE IF decision = "BS3" THEN "closing_BS3"
    ELSE "closing_insufficient"

(* C27: for a non-empty input the narrative is, in this order: the          *)
(* pathogenic clause iff an experiment is evaluated supports_pathogenic,    *)
(* the benign clause iff one is evaluated supports_benign (each with the    *)
(* experiment count and the distinct-paper count of its partition), the     *)
(* fallback clause iff both partitions are empty, and one closing clause,   *)
(* the one of the decision; nothing else and nothing twice                  *)
C27_NarrativeClauses ==
    (Returned /\ experiments # <<>>) =>
        LET N == assessment[1].narrative
            P == WithEvaluation("supports_pathogenic")
            B == WithEvaluation("supports_benign")
            Has(c) == \E k \in 1..Len(N) : N[k].clause = c
            Counts(c, I) ==
                \A k \in 1..Len(N) :
                    N[k].clause = c =>
                        /\ N[k].experiments = Cardinality(I)
                        /\ N[k].papers = Cardinality(PmidsAt(I))
        IN  /\ \A k \in 1..Len(N) : ClauseRank(N[k].clause) > 0
            /\ \A k, l \in 1..Len(N) :
                  k < l => ClauseRank(N[k].clause) < ClauseRank(N[l].clause)
            /\ Has("pathogenic") <=> P # {}
            /\ Counts("pathogenic", P)
            /\ Has("benign") <=> B # {}
            /\ Counts("benign", B)
            /\ Has("all_ambiguous") <=> (P = {} /\ B = {})
            /\ N # <<>>
            /\ N[Len(N)].clause = ClosingOf(assessment[1].decision)
            /\ N[Len(N)].strength = assessment[1].strength

(* experiments of both evaluations, the benign ones of low confidence: a    *)
(* pathogenic clause counting two experiments of one paper, a benign        *)
(* clause and the PS3 closing                                               *)
C27_Witness ==
    /\ Returned
    /\ Len(assessment[1].narrative) = 3
    /\ assessment[1].narrative[1] = Clause("pathogenic", 2, 1, "None")
    /\ assessment[1].narrative[2].clause = "benign"
    /\ assessment[1].narrative[3] = Clause("closing_PS3", 0, 0, "supporting")

----------------------------------------------------------------------------
(* Provenance                                                               *)

(* C28: the PMIDs of the experiments are PMIDs of functional papers, those  *)
(* are PMIDs of candidate papers, those were returned by the LitVar2        *)
(* lookup, and so was every PMID of the assessment's key_pmids; the         *)
(* returned dict holds these very lists                                     *)
C28_ProvenanceChain ==
    /\ PmidsOf(experiments) \subseteq PmidsOf(functional_papers)
    /\ PmidsOf(functional_papers) \subseteq PmidsOf(candidate_papers)
    /\ PmidsOf(candidate_papers) \subseteq all_pmids
    /\ Returned => Range(assessment[1].key_pmids) \subseteq all_pmids
    /\ pc = "done" =>
          /\ result[1].experiments = experiments
          /\ result[1].functional_papers = functional_papers
          /\ result[1].candidate_papers = candidate_papers
          /\ result[1].assessment = assessment[1]

(* a finished run: two PMIDs were looked up, the metadata of the second    *)
(* was not resolved, and the key PMID of the assessment is the first one   *)
C28_Witness ==
    /\ pc = "done"
    /\ Cardinality(all_pmids) = 2
    /\ PmidsOf(candidate_papers) = {pmid_list[1]}
    /\ PmidsOf(functional_papers) = {pmid_list[1]}
    /\ assessment[1].key_pmids = <<pmid_list[1]>>

----------------------------------------------------------------------------
(* Evidence that does not count                                             *)

(* records outside the two high-confidence partitions: an evaluation other  *)
(* than the two supporting ones (the empty one included) with any           *)
(* controls_validity, or a supporting evaluation with a text of at most 40  *)
(* characters                                                               *)
LowConfidenceRecords ==
    {FunctionalExperiment(p, ev, cv) :
        p \in PMIDS, ev \in {"ambiguous", "low_quality", ""}, cv \in {Text(41), Null}}
    \cup {FunctionalExperiment(p, ev, cv) :
        p \in PMIDS, ev \in {"supports_pathogenic", "supports_benign"},
        cv \in {Text(0), Text(40)}}

(* C29: adding a record outside the two high-confidence partitions to the   *)
(* input leaves decision and strength as they are                           *)
C29_LowConfidenceIsIgnored ==
    pc = "report" =>
        \A r \in LowConfidenceRecords :
            LET with == Append(experiments, r)
            IN  /\ ~integrate_raises(with)
                /\ integrate_evidence(with).decision = assessment[1].decision
                /\ integrate_evidence(with).strength = assessment[1].strength

(* a strong PS3 call with an opposing experiment of low confidence in the   *)
(* input                                                                    *)
C29_Witness ==
    /\ pc = "report"
    /\ Is("PS3", "strong")
    /\ \E i \in WithEvaluation("supports_benign") :
          experiments[i].controls_validity = Text(40)

----------------------------------------------------------------------------
(* Duplicate records                                                        *)

(* the experiment count and the paper count the narrative n reports in its  *)
(* clause c, <<0, 0>> when it has no such clause                            *)
CountsIn(n, c) ==
    IF \E k \in 1..Len(n) : n[k].clause = c
    THEN LET k == CHOOSE k \in 1..Len(n) : n[k].clause = c
         IN  <<n[k].experiments, n[k].papers>>
    ELSE <<0, 0>>

(* the clause that counts the experiments of an evaluation *)
ClauseOf(ev) == IF ev = "supports_pathogenic" THEN "pathogenic" ELSE "benign"

(* C30: appending a copy of a record of the input leaves decision,          *)
(* strength and key_pmids as they are, while the copy is counted as one     *)
(* more experiment (of no additional paper) in the narrative clause of its  *)
(* evaluation                                                               *)
C30_DuplicatesCountButDoNotDecide ==
    pc = "report" =>
        \A i \in 1..Len(experiments) :
            LET e == experiments[i]
                with == integrate_evidence(Append(experiments, e))
                before == CountsIn(assessment[1].narrative, ClauseOf(e.evaluation))
                after == CountsIn(with.narrative, ClauseOf(e.evaluation))
            IN  /\ ~integrate_raises(Append(experiments, e))
                /\ with.decision = assessment[1].decision
                /\ with.strength = assessment[1].strength
                /\ with.key_pmids = assessment[1].key_pmids
                /\ e.evaluation \in {"supports_pathogenic", "supports_benign"}
                      => after = <<before[1] + 1, before[2]>>

(* the input is a high-confidence supporting record and its literal copy:   *)
(* two experiments of one paper, and the call is of supporting strength     *)
C30_Witness ==
    /\ pc = "report"
    /\ Len(experiments) = 2
    /\ experiments[1] = experiments[2]
    /\ HighConfidence("supports_benign") = {1, 2}
    /\ Is("BS3", "supporting")
    /\ CountsIn(assessment[1].narrative, "benign") = <<2, 1>>

====
